---- MODULE Spec2Model ----
(***************************************************************************)
(* Activity invocation contract of the cadence client package:             *)
(*   - the invocation option chain (activity.go, WithXxx setters and       *)
(*     WithActivityOptions; getValidatedActivityOptions),                  *)
(*   - the activity environment and heartbeat (WithActivityTask,           *)
(*     GetActivityInfo, RecordActivityHeartbeat),                          *)
(*   - the reflective signature validator (validateFunctionArgs).          *)
(* Pointers are modelled as sequences of length <= 1: <<>> is nil and      *)
(* <<v>> points to v.  Objects live in heaps indexed by their identity.    *)
(***************************************************************************)
EXTENDS Integers, Sequences, FiniteSets, TLC

VARIABLES
    ctxs,      \* workflow Context nodes: [parent, key, val]; identity = index
    heap,      \* executeActivityParameters objects; identity = index
    last,      \* the last call on the option chain and what it returned
    nOps,      \* number of chain-building calls made so far
    pc,        \* concurrent callers: position inside a setter
    tgt,       \* concurrent callers: parameters object the caller writes
    own,       \* concurrent callers: inherited parameters overlaid with own writes
    cur,       \* concurrent callers: chain the caller currently holds
    calls,     \* concurrent callers: number of setters started
    gctx,      \* context.Context nodes of activity executions
    log,       \* number of entries written to the activity logger
    hb,        \* the last environment call and its outcome
    nHb,       \* number of environment calls made so far
    fn,        \* validateFunctionArgs: f (kind and declared parameter types)
    args,      \* validateFunctionArgs: runtime types of the arguments
    isWorkflow,\* validateFunctionArgs: expected context flavor
    res,       \* validateFunctionArgs: result of the last call
    prev,      \* validateFunctionArgs: result of the call before the edit
    edit       \* validateFunctionArgs: how args changed between the calls

vars == <<ctxs, heap, last, nOps, pc, tgt, own, cur, calls,
          gctx, log, hb, nHb, fn, args, isWorkflow, res, prev, edit>>

chainVars == <<ctxs, heap, last, nOps>>
concVars  == <<pc, tgt, own, cur, calls>>
envVars   == <<gctx, log, hb, nHb>>
argVars   == <<fn, args, isWorkflow, res, prev, edit>>

(***************************************************************************)
(* Bounds of the model.                                                    *)
(***************************************************************************)
MaxOps == 2        \* chain-building calls per behaviour
MaxCalls == 2      \* setters each concurrent caller applies
MaxHb == 2         \* heartbeats per behaviour
MaxNodes == 5      \* context.Context nodes per behaviour
MaxParams == 2     \* declared parameters of f
MaxArgs == 2       \* arguments at the call site

(***************************************************************************)
(* time.Duration is a count of nanoseconds; Seconds() divides by 1e9.      *)
(***************************************************************************)
NanosPerSecond == 1000 * 1000 * 1000

Durations == {0 - NanosPerSecond, 500 * 1000 * 1000, 1500 * 1000 * 1000}

TaskLists == {"A", "B"}

\* int32(d.Seconds()): the float64 quotient truncated toward zero.
Int32SecondsCeil(d) ==
    IF d >= 0 THEN (d + NanosPerSecond - 1) \div NanosPerSecond
              ELSE 0 - ((0 - d) \div NanosPerSecond)

Int32Seconds(d) ==
    IF d >= 0 THEN d \div NanosPerSecond
              ELSE 0 - ((0 - d) \div NanosPerSecond)

(***************************************************************************)
(* executeActivityParameters and the context chain.                        *)
(***************************************************************************)
\* &executeActivityParameters{}: every field at its zero value.
executeActivityParameters ==
    [ActivityID |-> <<>>, ActivityType |-> "", TaskListName |-> "",
     Input |-> <<>>,
     ScheduleToCloseTimeoutSeconds |-> 0,
     ScheduleToStartTimeoutSeconds |-> 0,
     StartToCloseTimeoutSeconds |-> 0,
     HeartbeatTimeoutSeconds |-> 0,
     WaitForCancellation |-> FALSE]

activityOptionsContextKey == "activityOptions"

\* ctx.Value(key) on the chain cs: the nearest node bound to key, 0 if none.
RECURSIVE Value(_, _, _)
Value(cs, c, key) ==
    IF c = 0 THEN 0
    ELSE IF cs[c].key = key THEN cs[c].val
    ELSE Value(cs, cs[c].parent, key)

\* WithValue(ctx, key, val): a new child node of ctx.
WithValue(cs, c, key, val) == Append(cs, [parent |-> c, key |-> key, val |-> val])

\* getActivityOptions: identity of the bound parameters object, 0 for nil.
getActivityOptions(cs, c) == Value(cs, c, activityOptionsContextKey)

\* setActivityParametersIfNotExist: [ctxs, heap, ctx] after the call.
setActivityParametersIfNotExist(cs, hp, c) ==
    IF getActivityOptions(cs, c) = 0
    THEN [ctxs |-> WithValue(cs, c, activityOptionsContextKey, Len(hp) + 1),
          heap |-> Append(hp, executeActivityParameters),
          ctx  |-> Len(cs) + 1]
    ELSE [ctxs |-> cs, heap |-> hp, ctx |-> c]

\* What a chain resolves to: <<>> when nothing is bound, else <<params>>.
Resolve(cs, hp, c) ==
    IF getActivityOptions(cs, c) = 0 THEN <<>>
    ELSE <<hp[getActivityOptions(cs, c)]>>

\* The parameters a setter starts from: the bound ones, or the zero value.
Accumulated(cs, hp, c) ==
    IF getActivityOptions(cs, c) = 0 THEN executeActivityParameters
    ELSE hp[getActivityOptions(cs, c)]

(***************************************************************************)
(* The ActivityOptions builder: every field is a pointer, nil until set.   *)
(***************************************************************************)
NewActivityOptions ==
    [activityID |-> <<>>, taskListName |-> <<>>,
     scheduleToCloseTimeoutSeconds |-> <<>>,
     scheduleToStartTimeoutSeconds |-> <<>>,
     startToCloseTimeoutSeconds |-> <<>>,
     heartbeatTimeoutSeconds |-> <<>>,
     waitForCancellation |-> <<>>]

ao_WithTaskList(ab, name) == [ab EXCEPT !.taskListName = <<name>>]
ao_WithScheduleToCloseTimeout(ab, d) ==
    [ab EXCEPT !.scheduleToCloseTimeoutSeconds = <<Int32Seconds(d)>>]
ao_WithScheduleToStartTimeout(ab, d) ==
    [ab EXCEPT !.scheduleToStartTimeoutSeconds = <<Int32Seconds(d)>>]
ao_WithStartToCloseTimeout(ab, d) ==
    [ab EXCEPT !.startToCloseTimeoutSeconds = <<Int32Seconds(d)>>]
ao_WithHeartbeatTimeout(ab, d) ==
    [ab EXCEPT !.heartbeatTimeoutSeconds = <<Int32Seconds(d)>>]
ao_WithWaitForCancellation(ab, wait) ==
    [ab EXCEPT !.waitForCancellation = <<wait>>]
ao_WithActivityID(ab, activityID) == [ab EXCEPT !.activityID = <<activityID>>]

\* The body of WithActivityOptions after eap is fetched: each non-nil
\* builder field is stored into eap, the others are left as they are.
OverlayAll(eap, ao) ==
    [eap EXCEPT
       !.TaskListName = IF ao.taskListName # <<>> THEN ao.taskListName[1] ELSE "",
       !.ScheduleToCloseTimeoutSeconds =
           IF ao.scheduleToCloseTimeoutSeconds # <<>>
           THEN ao.scheduleToCloseTimeoutSeconds[1] ELSE 0,
       !.StartToCloseTimeoutSeconds =
           IF ao.startToCloseTimeoutSeconds # <<>>
           THEN ao.startToCloseTimeoutSeconds[1] ELSE 0,
       !.ScheduleToStartTimeoutSeconds =
           IF ao.scheduleToStartTimeoutSeconds # <<>>
           THEN ao.scheduleToStartTimeoutSeconds[1] ELSE 0,
       !.HeartbeatTimeoutSeconds =
           IF ao.heartbeatTimeoutSeconds # <<>>
           THEN ao.heartbeatTimeoutSeconds[1] ELSE 0,
       !.WaitForCancellation =
           IF ao.waitForCancellation # <<>>
           THEN ao.waitForCancellation[1] ELSE FALSE,
       !.ActivityID = ao.activityID]

Overlay(eap, ao) ==
    [eap EXCEPT
       !.TaskListName =
           IF ao.taskListName # <<>> THEN ao.taskListName[1] ELSE @,
       !.ScheduleToCloseTimeoutSeconds =
           IF ao.scheduleToCloseTimeoutSeconds # <<>>
           THEN ao.scheduleToCloseTimeoutSeconds[1] ELSE @,
       !.StartToCloseTimeoutSeconds =
           IF ao.startToCloseTimeoutSeconds # <<>>
           THEN ao.startToCloseTimeoutSeconds[1] ELSE @,
       !.ScheduleToStartTimeoutSeconds =
           IF ao.scheduleToStartTimeoutSeconds # <<>>
           THEN ao.scheduleToStartTimeoutSeconds[1] ELSE @,
       !.HeartbeatTimeoutSeconds =
           IF ao.heartbeatTimeoutSeconds # <<>>
           THEN ao.heartbeatTimeoutSeconds[1] ELSE @,
       !.WaitForCancellation =
           IF ao.waitForCancellation # <<>>
           THEN ao.waitForCancellation[1] ELSE @,
       !.ActivityID = IF ao.activityID # <<>> THEN ao.activityID ELSE @]

\* Builders handed to WithActivityOptions: every subset of the three required
\* timeouts at 1.5s with and without a task list, single sub-second and
\* negative timeouts, the optional fields alone, and every field at once.
LongD == 1500 * 1000 * 1000
ShortD == 500 * 1000 * 1000

RequiredSubsets ==
    {ao_sub \in [c : BOOLEAN, s : BOOLEAN, t : BOOLEAN, n : BOOLEAN] : TRUE}

BuildRequired(pick, d) ==
    LET b0 == NewActivityOptions
        b1 == IF pick.n THEN ao_WithTaskList(b0, "B") ELSE b0
        b2 == IF pick.c THEN ao_WithScheduleToCloseTimeout(b1, d) ELSE b1
        b3 == IF pick.s THEN ao_WithScheduleToStartTimeout(b2, d) ELSE b2
    IN IF pick.t THEN ao_WithStartToCloseTimeout(b3, d) ELSE b3

WithOptional(ab) ==
    ao_WithActivityID(
        ao_WithWaitForCancellation(ao_WithHeartbeatTimeout(ab, LongD), TRUE),
        "id")

Builders ==
    {BuildRequired(pick, LongD) : pick \in RequiredSubsets}
    \cup {ao_WithScheduleToCloseTimeout(NewActivityOptions, ShortD),
          ao_WithScheduleToStartTimeout(NewActivityOptions, ShortD),
          ao_WithStartToCloseTimeout(NewActivityOptions, ShortD),
          ao_WithScheduleToCloseTimeout(NewActivityOptions, 0 - NanosPerSecond),
          WithOptional(NewActivityOptions),
          WithOptional(BuildRequired([c |-> TRUE, s |-> TRUE, t |-> TRUE,
                                      n |-> TRUE], LongD))}

(***************************************************************************)
(* getValidatedActivityOptions: [p, err]; p is the object's identity       *)
(* (0 for nil) and err is "" for a nil error.                              *)
(***************************************************************************)
errActivityParamsBadRequest == "errActivityParamsBadRequest"
errScheduleToStart == "missing or negative ScheduleToStartTimeoutSeconds"
errScheduleToClose == "missing or negative ScheduleToCloseTimeoutSeconds"
errStartToClose == "missing or negative StartToCloseTimeoutSeconds"

getValidatedActivityOptionsNoStartToClose(cs, hp, c) ==
    LET p == getActivityOptions(cs, c) IN
    IF p = 0 THEN [p |-> 0, err |-> errActivityParamsBadRequest]
    ELSE IF hp[p].ScheduleToStartTimeoutSeconds <= 0
         THEN [p |-> 0, err |-> errScheduleToStart]
    ELSE IF hp[p].ScheduleToCloseTimeoutSeconds <= 0
         THEN [p |-> 0, err |-> errScheduleToClose]
    ELSE [p |-> p, err |-> ""]

getValidatedActivityOptions(cs, hp, c) ==
    LET p == getActivityOptions(cs, c) IN
    IF p = 0 THEN [p |-> 0, err |-> errActivityParamsBadRequest]
    ELSE IF hp[p].ScheduleToStartTimeoutSeconds <= 0
         THEN [p |-> 0, err |-> errScheduleToStart]
    ELSE IF hp[p].ScheduleToCloseTimeoutSeconds <= 0
         THEN [p |-> 0, err |-> errScheduleToClose]
    ELSE IF hp[p].StartToCloseTimeoutSeconds <= 0
         THEN [p |-> 0, err |-> errStartToClose]
    ELSE [p |-> p, err |-> ""]

(***************************************************************************)
(* The option chain, one caller: every setter runs to completion.          *)
(***************************************************************************)
NoResult == [p |-> 0, err |-> ""]

\* ctx1 := setActivityParametersIfNotExist(ctx);
\* getActivityOptions(ctx1).<field> = value; return ctx1
FieldSetter(op, c, arg, field, value) ==
    LET r == setActivityParametersIfNotExist(ctxs, heap, c)
        eap == getActivityOptions(r.ctxs, r.ctx)
    IN /\ nOps < MaxOps
       /\ ctxs' = r.ctxs
       /\ heap' = [r.heap EXCEPT ![eap][field] = value]
       /\ last' = [op |-> op, ctx |-> c, ret |-> r.ctx, arg |-> <<arg>>,
                   before |-> Accumulated(ctxs, heap, c), result |-> NoResult]
       /\ nOps' = nOps + 1

WithActivityOptions(c, ao) ==
    LET ctx1 == setActivityParametersIfNotExist(ctxs, heap, c)
        eap == getActivityOptions(ctx1.ctxs, ctx1.ctx)
    IN /\ nOps < MaxOps
       /\ ctxs' = ctx1.ctxs
       /\ heap' = [ctx1.heap EXCEPT ![eap] = Overlay(@, ao)]
       /\ last' = [op |-> "WithActivityOptions", ctx |-> c, ret |-> ctx1.ctx,
                   arg |-> <<ao>>, before |-> Accumulated(ctxs, heap, c),
                   result |-> NoResult]
       /\ nOps' = nOps + 1

WithTaskList(c, name) ==
    FieldSetter("WithTaskList", c, name, "TaskListName", name)

WithScheduleToCloseTimeout(c, d) ==
    FieldSetter("WithScheduleToCloseTimeout", c, d,
                "ScheduleToCloseTimeoutSeconds", Int32Seconds(d))

WithScheduleToStartTimeout(c, d) ==
    FieldSetter("WithScheduleToStartTimeout", c, d,
                "ScheduleToStartTimeoutSeconds", Int32Seconds(d))

WithStartToCloseTimeout(c, d) ==
    FieldSetter("WithStartToCloseTimeout", c, d,
                "StartToCloseTimeoutSeconds", Int32Seconds(d))

WithHeartbeatTimeout(c, d) ==
    FieldSetter("WithHeartbeatTimeout", c, d,
                "HeartbeatTimeoutSeconds", Int32Seconds(d))

WithWaitForCancellation(c, wait) ==
    FieldSetter("WithWaitForCancellation", c, wait,
                "WaitForCancellation", wait)

\* A child chain that binds some other key (WithValue of the context package).
DeriveChild(c) ==
    /\ nOps < MaxOps
    /\ ctxs' = WithValue(ctxs, c, "other", 0)
    /\ last' = [op |-> "WithValue", ctx |-> c, ret |-> Len(ctxs) + 1,
                arg |-> <<"other">>, before |-> Accumulated(ctxs, heap, c),
                result |-> NoResult]
    /\ nOps' = nOps + 1
    /\ UNCHANGED heap

\* The scheduling layer resolves and validates chain c.
Validate(c) ==
    /\ last.op # "getValidatedActivityOptions" \/ last.ctx # c
    /\ last' = [op |-> "getValidatedActivityOptions", ctx |-> c, ret |-> c,
                arg |-> last.arg, before |-> Accumulated(ctxs, heap, c),
                result |-> getValidatedActivityOptions(ctxs, heap, c)]
    /\ UNCHANGED <<ctxs, heap, nOps>>

Background == [parent |-> 0, key |-> "background", val |-> 0]

ChainIdle ==
    /\ ctxs = <<Background>>
    /\ heap = <<>>
    /\ last = [op |-> "none", ctx |-> 1, ret |-> 1, arg |-> <<>>,
               before |-> executeActivityParameters, result |-> NoResult]
    /\ nOps = 0

\* The other subsystems at rest.
ConcIdle ==
    pc = <<>> /\ tgt = <<>> /\ own = <<>> /\ cur = <<>> /\ calls = <<>>

EnvIdle == gctx = <<>> /\ log = 0 /\ hb = <<>> /\ nHb = 0

ArgsIdle ==
    /\ fn = <<>> /\ args = <<>> /\ isWorkflow = FALSE
    /\ res = <<>> /\ prev = <<>> /\ edit = ""

Init == ChainIdle /\ ConcIdle /\ EnvIdle /\ ArgsIdle

Next ==
    \/ \E c \in DOMAIN ctxs, name \in TaskLists :
           WithTaskList(c, name) /\ UNCHANGED <<concVars, envVars, argVars>>
    \/ \E c \in DOMAIN ctxs, d \in Durations :
           WithScheduleToCloseTimeout(c, d)
           /\ UNCHANGED <<concVars, envVars, argVars>>
    \/ \E c \in DOMAIN ctxs, d \in Durations :
           WithScheduleToStartTimeout(c, d)
           /\ UNCHANGED <<concVars, envVars, argVars>>
    \/ \E c \in DOMAIN ctxs, d \in Durations :
           WithStartToCloseTimeout(c, d)
           /\ UNCHANGED <<concVars, envVars, argVars>>
    \/ \E c \in DOMAIN ctxs, d \in Durations :
           WithHeartbeatTimeout(c, d)
           /\ UNCHANGED <<concVars, envVars, argVars>>
    \/ \E c \in DOMAIN ctxs, wait \in BOOLEAN :
           WithWaitForCancellation(c, wait)
           /\ UNCHANGED <<concVars, envVars, argVars>>
    \/ \E c \in DOMAIN ctxs, ao \in Builders :
           WithActivityOptions(c, ao)
           /\ UNCHANGED <<concVars, envVars, argVars>>
    \/ \E c \in DOMAIN ctxs :
           DeriveChild(c) /\ UNCHANGED <<concVars, envVars, argVars>>
    \/ \E c \in DOMAIN ctxs :
           Validate(c) /\ UNCHANGED <<concVars, envVars, argVars>>

Spec == Init /\ [][Next]_vars

(***************************************************************************)
(* Claims about the option chain (specification Spec).                     *)
(***************************************************************************)
SetterOps ==
    {"WithTaskList", "WithScheduleToCloseTimeout", "WithScheduleToStartTimeout",
     "WithStartToCloseTimeout", "WithHeartbeatTimeout",
     "WithWaitForCancellation", "WithActivityOptions"}

RequiredTimeouts ==
    {"ScheduleToStartTimeoutSeconds", "ScheduleToCloseTimeoutSeconds",
     "StartToCloseTimeoutSeconds"}

\* The field a validation error names ("" when it names none).
NamedField(err) ==
    IF err = errScheduleToStart THEN "ScheduleToStartTimeoutSeconds"
    ELSE IF err = errScheduleToClose THEN "ScheduleToCloseTimeoutSeconds"
    ELSE IF err = errStartToClose THEN "StartToCloseTimeoutSeconds"
    ELSE ""

\* The field a timeout setter stores into.
TimeoutFieldOf(op) ==
    IF op = "WithScheduleToCloseTimeout" THEN "ScheduleToCloseTimeoutSeconds"
    ELSE IF op = "WithScheduleToStartTimeout" THEN "ScheduleToStartTimeoutSeconds"
    ELSE IF op = "WithStartToCloseTimeout" THEN "StartToCloseTimeoutSeconds"
    ELSE "HeartbeatTimeoutSeconds"

TimeoutSetterOps ==
    {"WithScheduleToCloseTimeout", "WithScheduleToStartTimeout",
     "WithStartToCloseTimeout", "WithHeartbeatTimeout"}

\* C1: an option setter applied to a chain never changes the parameters the
\* chain it was applied to (the ancestor of the returned chain) resolves to:
\* after C2 = WithTaskList(C1, "B"), C1 still resolves to what it did before.
C1_AncestorUnaffected ==
    last.op \in SetterOps =>
        Accumulated(ctxs, heap, last.ctx) = last.before

\* C3: getValidatedActivityOptions returns the chain's parameters with a nil
\* error exactly when parameters are bound and the three timeouts are
\* positive; with nothing bound it fails with errActivityParamsBadRequest;
\* with a timeout zero or negative it fails with an error naming a timeout
\* that is zero or negative, and when only one is, the error names that one.
C3_Validation ==
    last.op = "getValidatedActivityOptions" =>
        LET r == Resolve(ctxs, heap, last.ctx)
            v == last.result
        IN /\ r = <<>> =>
                  v.p = 0 /\ v.err = errActivityParamsBadRequest
           /\ r # <<>> /\ (\A f \in RequiredTimeouts : r[1][f] > 0) =>
                  v.err = "" /\ v.p = getActivityOptions(ctxs, last.ctx)
           /\ r # <<>> /\ (\E f \in RequiredTimeouts : r[1][f] <= 0) =>
                  /\ v.p = 0
                  /\ NamedField(v.err) \in RequiredTimeouts
                  /\ r[1][NamedField(v.err)] <= 0
           /\ r # <<>> =>
                  \A f \in RequiredTimeouts :
                      (r[1][f] <= 0
                       /\ \A g \in RequiredTimeouts \ {f} : r[1][g] > 0)
                      => NamedField(v.err) = f

C3_Witness ==
    /\ last.op = "getValidatedActivityOptions"
    /\ last.result.err = ""
    /\ last.result.p # 0
    /\ heap[last.result.p].TaskListName # ""

\* C8: in the parameters resolved from the chain WithActivityOptions returns,
\* a field set on the builder has the builder's value and a field not set
\* keeps the value of the accumulated parameters of ctx (zero if none).
C8_PartialOverlay ==
    last.op = "WithActivityOptions" =>
        LET ao == last.arg[1]
            now == Resolve(ctxs, heap, last.ret)
            old == last.before
            kept(ptr, new, was) == IF ptr # <<>> THEN new = ptr[1] ELSE new = was
        IN /\ now # <<>>
           /\ kept(ao.taskListName, now[1].TaskListName, old.TaskListName)
           /\ kept(ao.scheduleToCloseTimeoutSeconds,
                   now[1].ScheduleToCloseTimeoutSeconds,
                   old.ScheduleToCloseTimeoutSeconds)
           /\ kept(ao.scheduleToStartTimeoutSeconds,
                   now[1].ScheduleToStartTimeoutSeconds,
                   old.ScheduleToStartTimeoutSeconds)
           /\ kept(ao.startToCloseTimeoutSeconds,
                   now[1].StartToCloseTimeoutSeconds,
                   old.StartToCloseTimeoutSeconds)
           /\ kept(ao.heartbeatTimeoutSeconds,
                   now[1].HeartbeatTimeoutSeconds,
                   old.HeartbeatTimeoutSeconds)
           /\ kept(ao.waitForCancellation,
                   now[1].WaitForCancellation, old.WaitForCancellation)
           /\ IF ao.activityID # <<>> THEN now[1].ActivityID = ao.activityID
                                       ELSE now[1].ActivityID = old.ActivityID
           /\ now[1].ActivityType = old.ActivityType
           /\ now[1].Input = old.Input

C8_Witness ==
    /\ last.op = "WithActivityOptions"
    /\ last.before.TaskListName = "A"
    /\ last.arg[1].taskListName = <<>>
    /\ last.arg[1].scheduleToCloseTimeoutSeconds # <<>>
    /\ Accumulated(ctxs, heap, last.ret).TaskListName = "A"

\* C10: a timeout setter stores the duration truncated toward zero to whole
\* seconds.  A positive duration under one second is stored as 0, and the
\* chain is then rejected exactly as it is with that timeout never set; a
\* duration of one second or more is stored as a positive number and no
\* validation error names that field.  The builder methods store the same.
Truncated(d, n) ==
    IF d >= 0 THEN n >= 0 /\ n * NanosPerSecond <= d
                   /\ d - n * NanosPerSecond < NanosPerSecond
              ELSE n <= 0 /\ n * NanosPerSecond >= d
                   /\ n * NanosPerSecond - d < NanosPerSecond

C10_Truncation ==
    /\ last.op \in TimeoutSetterOps =>
        LET d == last.arg[1]
            f == TimeoutFieldOf(last.op)
            eap == getActivityOptions(ctxs, last.ret)
            v == getValidatedActivityOptions(ctxs, heap, last.ret)
            unset == [heap EXCEPT ![eap][f] = 0]
        IN /\ Truncated(d, heap[eap][f])
           /\ (0 < d /\ d < NanosPerSecond) =>
                 /\ heap[eap][f] = 0
                 /\ v = getValidatedActivityOptions(ctxs, unset, last.ret)
                 /\ f \in RequiredTimeouts => v.err # ""
           /\ d >= NanosPerSecond =>
                 heap[eap][f] > 0 /\ NamedField(v.err) # f
    /\ \A d \in Durations :
        /\ Truncated(d, ao_WithScheduleToCloseTimeout(NewActivityOptions, d)
                            .scheduleToCloseTimeoutSeconds[1])
        /\ Truncated(d, ao_WithScheduleToStartTimeout(NewActivityOptions, d)
                            .scheduleToStartTimeoutSeconds[1])
        /\ Truncated(d, ao_WithStartToCloseTimeout(NewActivityOptions, d)
                            .startToCloseTimeoutSeconds[1])
        /\ Truncated(d, ao_WithHeartbeatTimeout(NewActivityOptions, d)
                            .heartbeatTimeoutSeconds[1])
    /\ (last.op = "WithActivityOptions"
        /\ last.arg[1] \in
             {ao_WithScheduleToCloseTimeout(NewActivityOptions, ShortD),
              ao_WithScheduleToStartTimeout(NewActivityOptions, ShortD),
              ao_WithStartToCloseTimeout(NewActivityOptions, ShortD)}) =>
        getValidatedActivityOptions(ctxs, heap, last.ret).err # ""

C10_Witness ==
    /\ last.op = "WithStartToCloseTimeout"
    /\ last.arg[1] = ShortD
    /\ last.before.ScheduleToStartTimeoutSeconds > 0
    /\ heap[getActivityOptions(ctxs, last.ret)].StartToCloseTimeoutSeconds = 0

(***************************************************************************)
(* The option chain under concurrent callers (specification SpecConc).     *)
(* Each caller holds a chain derived from one shared ancestor and applies  *)
(* setters to it.  A setter is not atomic: it first obtains ctx1 and the   *)
(* parameters object (setActivityParametersIfNotExist, getActivityOptions) *)
(* and then stores into the object's fields one by one, without any lock.  *)
(***************************************************************************)
Callers == {"p", "q"}

\* The stores WithActivityOptions performs, in program order.
OverlayWrites(ao) ==
    (IF ao.taskListName # <<>>
     THEN <<[field |-> "TaskListName", value |-> ao.taskListName[1]]>>
     ELSE <<>>)
    \o (IF ao.scheduleToCloseTimeoutSeconds # <<>>
        THEN <<[field |-> "ScheduleToCloseTimeoutSeconds",
                value |-> ao.scheduleToCloseTimeoutSeconds[1]]>>
        ELSE <<>>)
    \o (IF ao.startToCloseTimeoutSeconds # <<>>
        THEN <<[field |-> "StartToCloseTimeoutSeconds",
                value |-> ao.startToCloseTimeoutSeconds[1]]>>
        ELSE <<>>)
    \o (IF ao.scheduleToStartTimeoutSeconds # <<>>
        THEN <<[field |-> "ScheduleToStartTimeoutSeconds",
                value |-> ao.scheduleToStartTimeoutSeconds[1]]>>
        ELSE <<>>)
    \o (IF ao.heartbeatTimeoutSeconds # <<>>
        THEN <<[field |-> "HeartbeatTimeoutSeconds",
                value |-> ao.heartbeatTimeoutSeconds[1]]>>
        ELSE <<>>)
    \o (IF ao.waitForCancellation # <<>>
        THEN <<[field |-> "WaitForCancellation",
                value |-> ao.waitForCancellation[1]]>>
        ELSE <<>>)
    \o (IF ao.activityID # <<>>
        THEN <<[field |-> "ActivityID", value |-> ao.activityID]>>
        ELSE <<>>)

\* The first half of every setter: ctx1 and its parameters object.
Enter(p, writes) ==
    LET r == setActivityParametersIfNotExist(ctxs, heap, cur[p])
    IN /\ pc[p] = "idle"
       /\ calls[p] < MaxCalls
       /\ ctxs' = r.ctxs
       /\ heap' = r.heap
       /\ tgt' = [tgt EXCEPT ![p] =
                     [obj |-> getActivityOptions(r.ctxs, r.ctx),
                      ctx |-> r.ctx, writes |-> writes]]
       /\ pc' = [pc EXCEPT ![p] = "write"]
       /\ calls' = [calls EXCEPT ![p] = @ + 1]
       /\ UNCHANGED <<own, cur>>

ConcWithTaskList(p, name) ==
    Enter(p, <<[field |-> "TaskListName", value |-> name]>>)

ConcWithScheduleToCloseTimeout(p, d) ==
    Enter(p, <<[field |-> "ScheduleToCloseTimeoutSeconds",
                value |-> Int32Seconds(d)]>>)

ConcWithScheduleToStartTimeout(p, d) ==
    Enter(p, <<[field |-> "ScheduleToStartTimeoutSeconds",
                value |-> Int32Seconds(d)]>>)

ConcWithStartToCloseTimeout(p, d) ==
    Enter(p, <<[field |-> "StartToCloseTimeoutSeconds",
                value |-> Int32Seconds(d)]>>)

ConcWithHeartbeatTimeout(p, d) ==
    Enter(p, <<[field |-> "HeartbeatTimeoutSeconds",
                value |-> Int32Seconds(d)]>>)

ConcWithWaitForCancellation(p, wait) ==
    Enter(p, <<[field |-> "WaitForCancellation", value |-> wait]>>)

ConcWithActivityOptions(p, ao) == Enter(p, OverlayWrites(ao))

\* Callers inside a store to the same field of the same object as p.
Racers(p) ==
    {q \in Callers \ {p} :
        /\ pc[q] = "write" /\ tgt[q].writes # <<>>
        /\ tgt[q].obj = tgt[p].obj
        /\ tgt[q].writes[1].field = tgt[p].writes[1].field}

\* One unsynchronised store.  When another caller is inside a store to the
\* same field, the field ends up with either of the racing values.
Store(p) ==
    /\ pc[p] = "write"
    /\ tgt[p].writes # <<>>
    /\ LET w == tgt[p].writes[1] IN
       /\ \E v \in {w.value} \cup {tgt[q].writes[1].value : q \in Racers(p)} :
              heap' = [heap EXCEPT ![tgt[p].obj][w.field] = v]
       /\ own' = [own EXCEPT ![p][w.field] = w.value]
    /\ tgt' = [tgt EXCEPT ![p].writes = Tail(@)]
    /\ UNCHANGED <<ctxs, pc, cur, calls>>

\* return ctx1
Return(p) ==
    /\ pc[p] = "write"
    /\ tgt[p].writes = <<>>
    /\ cur' = [cur EXCEPT ![p] = tgt[p].ctx]
    /\ pc' = [pc EXCEPT ![p] = "idle"]
    /\ UNCHANGED <<ctxs, heap, tgt, own, calls>>

ConcDurations == {LongD}

ConcBuilders ==
    {BuildRequired([c |-> TRUE, s |-> FALSE, t |-> FALSE, n |-> TRUE], LongD),
     WithOptional(NewActivityOptions)}

\* The shared ancestor is either the bare background chain or the chain
\* WithTaskList(background, "A") returned before the callers started.
Configured == setActivityParametersIfNotExist(<<Background>>, <<>>, 1)

InitConc ==
    /\ \E shared \in {1, Configured.ctx} :
          /\ cur = [p \in Callers |-> shared]
          /\ ctxs = Configured.ctxs
          /\ heap = [Configured.heap EXCEPT ![1].TaskListName = "A"]
          /\ own = [p \in Callers |-> Accumulated(ctxs, heap, shared)]
    /\ pc = [p \in Callers |-> "idle"]
    /\ tgt = [p \in Callers |-> [obj |-> 0, ctx |-> 0, writes |-> <<>>]]
    /\ calls = [p \in Callers |-> 0]
    /\ last = [op |-> "none", ctx |-> 1, ret |-> 1, arg |-> <<>>,
               before |-> executeActivityParameters, result |-> NoResult]
    /\ nOps = 0
    /\ EnvIdle /\ ArgsIdle

NextConc ==
    \/ \E p \in Callers, name \in TaskLists :
           ConcWithTaskList(p, name)
           /\ UNCHANGED <<last, nOps, envVars, argVars>>
    \/ \E p \in Callers, d \in ConcDurations :
           ConcWithScheduleToCloseTimeout(p, d)
           /\ UNCHANGED <<last, nOps, envVars, argVars>>
    \/ \E p \in Callers, d \in ConcDurations :
           ConcWithScheduleToStartTimeout(p, d)
           /\ UNCHANGED <<last, nOps, envVars, argVars>>
    \/ \E p \in Callers, d \in ConcDurations :
           ConcWithStartToCloseTimeout(p, d)
           /\ UNCHANGED <<last, nOps, envVars, argVars>>
    \/ \E p \in Callers, d \in ConcDurations :
           ConcWithHeartbeatTimeout(p, d)
           /\ UNCHANGED <<last, nOps, envVars, argVars>>
    \/ \E p \in Callers, wait \in {TRUE} :
           ConcWithWaitForCancellation(p, wait)
           /\ UNCHANGED <<last, nOps, envVars, argVars>>
    \/ \E p \in Callers, ao \in ConcBuilders :
           ConcWithActivityOptions(p, ao)
           /\ UNCHANGED <<last, nOps, envVars, argVars>>
    \/ \E p \in Callers :
           Store(p) /\ UNCHANGED <<last, nOps, envVars, argVars>>
    \/ \E p \in Callers :
           Return(p) /\ UNCHANGED <<last, nOps, envVars, argVars>>

SpecConc == InitConc /\ [][NextConc]_vars

\* C2: callers applying setters to chains derived from one shared ancestor
\* never race: no two callers write the same executeActivityParameters
\* object, and what a caller's chain resolves to holds only the values that
\* caller set plus those inherited from the ancestor.
C2_NoRace ==
    /\ \A p, q \in Callers :
          (p # q /\ pc[p] = "write" /\ pc[q] = "write") => tgt[p].obj # tgt[q].obj
    /\ \A p \in Callers :
          pc[p] = "idle" => Accumulated(ctxs, heap, cur[p]) = own[p]

(***************************************************************************)
(* The activity environment and the heartbeat (specification SpecEnv).     *)
(* gctx holds context.Context nodes [parent, kind, env, task, canceled];   *)
(* env is nil or the activityEnvironment bound at that node, task is the   *)
(* poll response WithActivityTask was given, canceled is the state of a    *)
(* cancelable node.                                                        *)
(***************************************************************************)
Tasks ==
    {[TaskToken |-> "tok1", ActivityId |-> "a1", ActivityTypeName |-> "T1",
      WorkflowId |-> "w1", RunId |-> "r1"],
     [TaskToken |-> "tok2", ActivityId |-> "a2", ActivityTypeName |-> "T2",
      WorkflowId |-> "w2", RunId |-> "r2"]}

GoBackground ==
    [parent |-> 0, kind |-> "background", env |-> <<>>, task |-> <<>>,
     canceled |-> FALSE]

\* context.WithCancel(parent): a cancelable child.
GoWithCancel(cs, c) ==
    Append(cs, [parent |-> c, kind |-> "cancel", env |-> <<>>, task |-> <<>>,
                canceled |-> FALSE])

\* context.WithValue(parent, key, val) for a key other than activityEnv.
GoWithValue(cs, c) ==
    Append(cs, [parent |-> c, kind |-> "value", env |-> <<>>, task |-> <<>>,
                canceled |-> FALSE])

\* ctx.Err(): context.Canceled once the node or an ancestor is canceled.
RECURSIVE Err(_, _)
Err(cs, c) ==
    IF c = 0 THEN ""
    ELSE IF cs[c].canceled THEN "context.Canceled"
    ELSE Err(cs, cs[c].parent)

\* WithActivityTask with the workflow and run identifiers exchanged.
WithActivityTaskSwapped(cs, c, task, invoker, logger) ==
    Append(cs, [parent |-> c, kind |-> "env", task |-> <<task>>,
                canceled |-> FALSE,
                env |-> <<[taskToken |-> task.TaskToken,
                           serviceInvoker |-> invoker,
                           activityType |-> [Name |-> task.ActivityTypeName],
                           activityID |-> task.ActivityId,
                           workflowExecution |->
                               [RunID |-> task.WorkflowId, ID |-> task.RunId],
                           logger |-> logger]>>])

\* WithActivityTask: context.WithValue(ctx, activityEnvContextKey, &env).
WithActivityTask(cs, c, task, invoker, logger) ==
    Append(cs, [parent |-> c, kind |-> "env", task |-> <<task>>,
                canceled |-> FALSE,
                env |-> <<[taskToken |-> task.TaskToken,
                           serviceInvoker |-> invoker,
                           activityType |-> [Name |-> task.ActivityTypeName],
                           activityID |-> task.ActivityId,
                           workflowExecution |->
                               [RunID |-> task.RunId, ID |-> task.WorkflowId],
                           logger |-> logger]>>])

\* The node whose activityEnv binding ctx.Value finds from c, 0 if none.
RECURSIVE EnvNode(_, _)
EnvNode(cs, c) ==
    IF c = 0 THEN 0
    ELSE IF cs[c].kind = "env" THEN c
    ELSE EnvNode(cs, cs[c].parent)

\* getActivityEnv: <<env>>, or <<>> where the code panics.
getActivityEnv(cs, c) ==
    IF EnvNode(cs, c) = 0 THEN <<>> ELSE cs[EnvNode(cs, c)].env

NoInfo == <<>>

GetActivityInfoResult(cs, c) ==
    LET env == getActivityEnv(cs, c) IN
    IF env = <<>> THEN [outcome |-> "panic", info |-> NoInfo]
    ELSE [outcome |-> "returned",
          info |-> <<[ActivityID |-> env[1].activityID,
                      ActivityType |-> env[1].activityType,
                      TaskToken |-> env[1].taskToken,
                      WorkflowExecution |-> env[1].workflowExecution]>>]

GetActivityLoggerResult(cs, c) ==
    LET env == getActivityEnv(cs, c) IN
    IF env = <<>> THEN [outcome |-> "panic", logger |-> <<>>]
    ELSE [outcome |-> "returned", logger |-> <<env[1].logger>>]

\* The worker's ServiceInvoker: Heartbeat reports the service's answer and,
\* when the activity is canceled or unknown to the service, cancels the
\* execution context through the cancel handler it was created with.
InvokerHeartbeat(cs, invoker, service) ==
    [err |-> IF service = "ok" THEN "" ELSE service,
     gctx |-> IF service \in {"canceled", "notexists"}
              THEN [cs EXCEPT ![invoker.cancels].canceled = TRUE]
              ELSE cs]

\* RecordActivityHeartbeat: [outcome, ret, gctx, logged].  The function has
\* no result, so ret is always the empty string.
RecordActivityHeartbeatPanicOnError(cs, c, details, service) ==
    IF details = "unsupported" \/ getActivityEnv(cs, c) = <<>>
    THEN [outcome |-> "panic", ret |-> "", gctx |-> cs, logged |-> 0]
    ELSE LET env == getActivityEnv(cs, c)[1]
             r == InvokerHeartbeat(cs, env.serviceInvoker, service)
         IN IF r.err # ""
            THEN [outcome |-> "panic", ret |-> "", gctx |-> r.gctx, logged |-> 0]
            ELSE [outcome |-> "returned", ret |-> "", gctx |-> r.gctx,
                  logged |-> 0]

RecordActivityHeartbeatNotSent(cs, c, details, service) ==
    IF details = "unsupported" \/ getActivityEnv(cs, c) = <<>>
    THEN [outcome |-> "panic", ret |-> "", gctx |-> cs, logged |-> 0]
    ELSE [outcome |-> "returned", ret |-> "", gctx |-> cs, logged |-> 0]

RecordActivityHeartbeatResult(cs, c, details, service) ==
    IF details = "unsupported"
    THEN [outcome |-> "panic", ret |-> "", gctx |-> cs, logged |-> 0]
    ELSE IF getActivityEnv(cs, c) = <<>>
    THEN [outcome |-> "panic", ret |-> "", gctx |-> cs, logged |-> 0]
    ELSE LET env == getActivityEnv(cs, c)[1]
             r == InvokerHeartbeat(cs, env.serviceInvoker, service)
         IN [outcome |-> "returned", ret |-> "", gctx |-> r.gctx,
             logged |-> IF r.err # "" THEN 1 ELSE 0]

EnvCall(op, c, details, service, outcome, ret, info, logger) ==
    [op |-> op, ctx |-> c, details |-> details, service |-> service,
     outcome |-> outcome, ret |-> ret, info |-> info, logger |-> logger,
     before |-> gctx, logBefore |-> log]

\* The dispatch layer starts an activity execution: a cancelable context
\* under the background context, an invoker holding its cancel handler,
\* and the environment bound with WithActivityTask.
Dispatch(task) ==
    /\ Len(gctx) + 2 <= MaxNodes
    /\ LET canCtx == Len(gctx) + 1
           invoker == [cancels |-> canCtx]
       IN gctx' = WithActivityTask(GoWithCancel(gctx, 1), canCtx, task,
                                   invoker, <<"logger", task.ActivityId>>)
    /\ hb' = EnvCall("WithActivityTask", Len(gctx) + 1, "", "", "returned", "",
                     NoInfo, <<>>)
    /\ UNCHANGED <<log, nHb>>

\* Activity code derives a child context.
DeriveCtx(c) ==
    /\ Len(gctx) < MaxNodes
    /\ gctx' = GoWithValue(gctx, c)
    /\ hb' = EnvCall("WithValue", c, "", "", "returned", "", NoInfo, <<>>)
    /\ UNCHANGED <<log, nHb>>

GetActivityInfo(c) ==
    /\ LET r == GetActivityInfoResult(gctx, c)
       IN hb' = EnvCall("GetActivityInfo", c, "", "", r.outcome, "", r.info, <<>>)
    /\ UNCHANGED <<gctx, log, nHb>>

GetActivityLogger(c) ==
    /\ LET r == GetActivityLoggerResult(gctx, c)
       IN hb' = EnvCall("GetActivityLogger", c, "", "", r.outcome, "", NoInfo,
                        r.logger)
    /\ UNCHANGED <<gctx, log, nHb>>

RecordActivityHeartbeat(c, details, service) ==
    /\ nHb < MaxHb
    /\ LET r == RecordActivityHeartbeatResult(gctx, c, details, service)
       IN /\ gctx' = r.gctx
          /\ log' = log + r.logged
          /\ hb' = EnvCall("RecordActivityHeartbeat", c, details, service,
                           r.outcome, r.ret, NoInfo, <<>>)
    /\ nHb' = nHb + 1

HeartbeatDetails == {"encodable", "unsupported"}
ServiceAnswers == {"ok", "canceled", "notexists", "transport"}

InitEnv ==
    /\ gctx = <<GoBackground>>
    /\ log = 0
    /\ nHb = 0
    /\ hb = [op |-> "none", ctx |-> 1, details |-> "", service |-> "",
             outcome |-> "returned", ret |-> "", info |-> NoInfo,
             logger |-> <<>>, before |-> <<GoBackground>>, logBefore |-> 0]
    /\ ChainIdle /\ ConcIdle /\ ArgsIdle

NextEnv ==
    \/ \E task \in Tasks :
           Dispatch(task) /\ UNCHANGED <<chainVars, concVars, argVars>>
    \/ \E c \in DOMAIN gctx :
           DeriveCtx(c) /\ UNCHANGED <<chainVars, concVars, argVars>>
    \/ \E c \in DOMAIN gctx :
           GetActivityInfo(c) /\ UNCHANGED <<chainVars, concVars, argVars>>
    \/ \E c \in DOMAIN gctx :
           GetActivityLogger(c) /\ UNCHANGED <<chainVars, concVars, argVars>>
    \/ \E c \in DOMAIN gctx, details \in HeartbeatDetails,
          service \in ServiceAnswers :
           RecordActivityHeartbeat(c, details, service)
           /\ UNCHANGED <<chainVars, concVars, argVars>>

SpecEnv == InitEnv /\ [][NextEnv]_vars

\* Contexts at or below node a.
RECURSIVE Below(_, _, _)
Below(cs, a, c) ==
    IF c = 0 THEN FALSE
    ELSE IF c = a THEN TRUE
    ELSE Below(cs, a, cs[c].parent)

C5_BestEffort ==
    (/\ hb.op = "RecordActivityHeartbeat"
     /\ hb.details = "encodable"
     /\ EnvNode(hb.before, hb.ctx) # 0
     /\ hb.service \in {"ok", "transport"}) =>
        /\ hb.outcome = "returned"
        /\ hb.ret = ""
        /\ gctx = hb.before
        /\ log = hb.logBefore + (IF hb.service = "transport" THEN 1 ELSE 0)

C5_Witness ==
    /\ hb.op = "RecordActivityHeartbeat"
    /\ hb.service = "transport"
    /\ hb.outcome = "returned"
    /\ log = hb.logBefore + 1
    /\ Err(gctx, hb.ctx) = ""

\* C9: GetActivityInfo, GetActivityLogger and RecordActivityHeartbeat panic
\* on a context with no environment bound; on a context produced by
\* WithActivityTask or derived from it GetActivityInfo returns exactly the
\* task's TaskToken, ActivityId, ActivityType name, WorkflowId and RunId,
\* whatever heartbeats and reads came before; the bound environment of a
\* node never changes.
EnvReads == {"GetActivityInfo", "GetActivityLogger", "RecordActivityHeartbeat"}

C9_Environment ==
    /\ (hb.op \in EnvReads /\ EnvNode(hb.before, hb.ctx) = 0)
           => hb.outcome = "panic"
    /\ (hb.op = "GetActivityInfo" /\ EnvNode(gctx, hb.ctx) # 0) =>
           LET task == gctx[EnvNode(gctx, hb.ctx)].task[1] IN
           /\ hb.outcome = "returned"
           /\ hb.info = <<[TaskToken |-> task.TaskToken,
                           ActivityID |-> task.ActivityId,
                           ActivityType |-> [Name |-> task.ActivityTypeName],
                           WorkflowExecution |->
                               [ID |-> task.WorkflowId, RunID |-> task.RunId]]>>
    /\ \A c \in DOMAIN hb.before :
           gctx[c].env = hb.before[c].env /\ gctx[c].task = hb.before[c].task

C9_Witness ==
    /\ hb.op = "GetActivityInfo"
    /\ hb.outcome = "returned"
    /\ gctx[hb.ctx].kind = "value"
    /\ nHb > 0
    /\ hb.info[1].ActivityID = "a2"

(***************************************************************************)
(* validateFunctionArgs (specification SpecArgs).  f is [kind, in]: the    *)
(* reflect kind of f ("nil" for an untyped nil) and, for a function, the   *)
(* declared parameter types.  args holds the dynamic type of each          *)
(* argument, "nil" for an untyped nil.  A result is [err, n]: err is "nil" *)
(* for a nil error, else the kind of error, or "panic"; n is the number    *)
(* the message carries (expected count, or position of the parameter).     *)
(***************************************************************************)
ParamTypes == {"int", "interface{}", "context.Context", "*ctxImpl", "Context"}
ArgTypes == {"int", "string", "*ctxImpl", "*wfCtxImpl", "nil"}
NonFuncKinds == {"string", "int", "nil"}

\* reflect: the types whose method set implements the interface type.
Implements(t, iface) ==
    \/ iface = "interface{}"
    \/ iface = "context.Context" /\ t \in {"context.Context", "*ctxImpl"}
    \/ iface = "Context" /\ t \in {"Context", "*wfCtxImpl"}

\* reflect: argType.AssignableTo(fnArgType).
AssignableTo(t, u) ==
    \/ t = u
    \/ u \in {"interface{}", "context.Context", "Context"} /\ Implements(t, u)

isActivityContext(inType) == Implements(inType, "context.Context")

\* The workflow counterpart: inType implements the workflow Context.
isWorkflowContext(inType) == Implements(inType, "Context")

\* fnArgIndex after the "Skip Context function argument" block, with the
\* flavor flag ignored.
fnArgIndexAnyContext(in, wf) ==
    IF Len(in) > 0 /\ (isWorkflowContext(in[1]) \/ isActivityContext(in[1]))
    THEN 1 ELSE 0

\* fnArgIndex after the "Skip Context function argument" block.
fnArgIndexAfterContext(in, wf) ==
    IF Len(in) > 0
    THEN (IF wf /\ isWorkflowContext(in[1]) THEN 1 ELSE 0)
         + (IF ~wf /\ isActivityContext(in[1]) THEN 1 ELSE 0)
    ELSE 0

\* The assignability loop from (fnArgIndex, i) on.
RECURSIVE AssignLoop(_, _, _, _)
AssignLoop(in, as, fnArgIndex, i) ==
    IF ~(fnArgIndex < Len(in)) THEN [err |-> "nil", n |-> 0]
    ELSE IF as[i + 1] = "nil" THEN [err |-> "panic", n |-> 0]
    ELSE IF ~AssignableTo(as[i + 1], in[fnArgIndex + 1])
         THEN [err |-> "cannot assign", n |-> fnArgIndex + 1]
    ELSE AssignLoop(in, as, fnArgIndex + 1, i + 1)

\* validateFunctionArgs with the count check rejecting only too few args.
validateFunctionArgsLoose(f, as, wf) ==
    IF f.kind = "nil" THEN [err |-> "panic", n |-> 0]
    ELSE IF f.kind # "func" THEN [err |-> "not a function", n |-> 0]
    ELSE LET fnArgIndex == fnArgIndexAfterContext(f.in, wf) IN
         IF Len(f.in) - fnArgIndex > Len(as)
         THEN [err |-> "expected args", n |-> Len(f.in) - fnArgIndex]
         ELSE AssignLoop(f.in, as, fnArgIndex, 0)

validateFunctionArgs(f, as, wf) ==
    IF f.kind = "nil" THEN [err |-> "panic", n |-> 0]
    ELSE IF f.kind # "func" THEN [err |-> "not a function", n |-> 0]
    ELSE LET fnArgIndex == fnArgIndexAfterContext(f.in, wf) IN
         IF Len(f.in) - fnArgIndex # Len(as)
         THEN [err |-> "expected args", n |-> Len(f.in) - fnArgIndex]
         ELSE AssignLoop(f.in, as, fnArgIndex, 0)

SeqsUpTo(S, n) == UNION {[1..k -> S] : k \in 0..n}

Fns ==
    {[kind |-> "func", in |-> in] : in \in SeqsUpTo(ParamTypes, MaxParams)}
    \cup {[kind |-> k, in |-> <<>>] : k \in NonFuncKinds}

InsertAt(as, i, t) == SubSeq(as, 1, i - 1) \o <<t>> \o SubSeq(as, i, Len(as))
RemoveAt(as, i) == SubSeq(as, 1, i - 1) \o SubSeq(as, i + 1, Len(as))

NoCall == [err |-> "none", n |-> 0]

\* A call site validated as it stands.
Call ==
    /\ edit # "call"
    /\ res' = validateFunctionArgs(fn, args, isWorkflow)
    /\ prev' = NoCall
    /\ edit' = "call"
    /\ UNCHANGED <<fn, args, isWorkflow>>

\* The call site validated, one argument added, and validated again.
AddArg(i, t) ==
    /\ Len(args) < MaxArgs
    /\ prev' = validateFunctionArgs(fn, args, isWorkflow)
    /\ args' = InsertAt(args, i, t)
    /\ res' = validateFunctionArgs(fn, args', isWorkflow)
    /\ edit' = "add"
    /\ UNCHANGED <<fn, isWorkflow>>

\* The call site validated, one argument removed, and validated again.
RemoveArg(i) ==
    /\ prev' = validateFunctionArgs(fn, args, isWorkflow)
    /\ args' = RemoveAt(args, i)
    /\ res' = validateFunctionArgs(fn, args', isWorkflow)
    /\ edit' = "remove"
    /\ UNCHANGED <<fn, isWorkflow>>

InitArgs ==
    /\ fn \in Fns
    /\ args \in SeqsUpTo(ArgTypes, MaxArgs)
    /\ isWorkflow \in BOOLEAN
    /\ res = NoCall /\ prev = NoCall /\ edit = ""
    /\ ChainIdle /\ ConcIdle /\ EnvIdle

NextArgs ==
    \/ Call /\ UNCHANGED <<chainVars, concVars, envVars>>
    \/ \E i \in 1..(Len(args) + 1), t \in ArgTypes :
           AddArg(i, t) /\ UNCHANGED <<chainVars, concVars, envVars>>
    \/ \E i \in 1..Len(args) :
           RemoveArg(i) /\ UNCHANGED <<chainVars, concVars, envVars>>

SpecArgs == InitArgs /\ [][NextArgs]_vars

\* Whether the first declared parameter is a context of the expected flavor.
LeadingContext ==
    /\ fn.kind = "func"
    /\ Len(fn.in) > 0
    /\ IF isWorkflow THEN Implements(fn.in[1], "Context")
                     ELSE Implements(fn.in[1], "context.Context")

\* The declared parameters that are matched against the arguments.
Declared == IF LeadingContext THEN Tail(fn.in) ELSE fn.in

Matches ==
    /\ Len(Declared) = Len(args)
    /\ \A i \in 1..Len(args) :
           args[i] # "nil" /\ AssignableTo(args[i], Declared[i])

\* C6 as stated: success iff the counts agree and every argument type is
\* assignable; adding or removing one argument always flips the result; a
\* non-function f is rejected (the call does not succeed).
C6_AlwaysFlips ==
    edit # "" =>
        /\ fn.kind = "func" => (res.err = "nil" <=> Matches)
        /\ fn.kind # "func" => res.err # "nil"
        /\ (edit \in {"add", "remove"} /\ fn.kind = "func") =>
               ((prev.err = "nil") # (res.err = "nil"))

\* C6 amended: success iff the counts agree and every argument type is
\* assignable; adding or removing one argument of an accepted call makes it
\* rejected (a rejected call can stay rejected); a non-nil non-function f is
\* rejected with an error (an untyped nil f panics inside reflect).
C6_Validator ==
    edit # "" =>
        /\ fn.kind = "func" => (res.err = "nil" <=> Matches)
        /\ fn.kind \notin {"func", "nil"} => res.err = "not a function"
        /\ (edit \in {"add", "remove"} /\ prev.err = "nil") =>
               res.err = "expected args"

C6_Witness ==
    /\ edit = "add"
    /\ prev.err = "nil"
    /\ res.err = "expected args"
    /\ Len(fn.in) = 2

\* C7: the first declared parameter is left out of the count and of the type
\* check exactly when it is a context of the expected flavor; any other
\* first parameter, a context of the other flavor included, is counted and
\* checked like the rest, and no second parameter is ever left out.
C7_LeadingContext ==
    (edit # "" /\ fn.kind = "func") =>
        /\ res.err = "expected args" <=> Len(Declared) # Len(args)
        /\ res.err = "expected args" => res.n = Len(Declared)
        /\ res.err = "nil" <=> Matches
        /\ res.err = "cannot assign" =>
               /\ Len(Declared) = Len(args)
               /\ LET i == res.n - (Len(fn.in) - Len(Declared)) IN
                  /\ i \in 1..Len(args)
                  /\ ~AssignableTo(args[i], Declared[i])
                  /\ \A j \in 1..(i - 1) : AssignableTo(args[j], Declared[j])

C7_Witness ==
    /\ edit = "call"
    /\ ~isWorkflow
    /\ fn.kind = "func"
    /\ fn.in = <<"context.Context", "context.Context">>
    /\ args = <<"*ctxImpl">>
    /\ res.err = "nil"

====
